---- MODULE Spec2Model ----
(***************************************************************************)
(* Model of the classic resource pool of src/pool.go.                      *)
(*                                                                         *)
(* One pool (the classic struct), NumProcs goroutines of the program that  *)
(* each invoke Call() or Release() whenever they are idle, and the gc()    *)
(* goroutine started by ClassicPool.                                       *)
(*                                                                         *)
(* Every access to the pool's fields and to the channel is made under the  *)
(* sync.RWMutex.  A critical section that cannot block inside is one       *)
(* action, taken when the mutex can be acquired; a goroutine waiting for   *)
(* the mutex sits at the program point in front of the section.  The       *)
(* sections under RLock each make one channel operation and read fields    *)
(* that only a writer changes, so overlapping them yields no state that    *)
(* running them one after the other does not.  Release() blocks inside its *)
(* section, so it holds the mutex (writer) across steps.                   *)
(* The buffered channel srcs is a sequence of resource ids; a receive on   *)
(* the empty channel and a send on the full channel block (the step is not *)
(* enabled).                                                               *)
(***************************************************************************)
EXTENDS Integers, Sequences, FiniteSets

\* ---------------------------------------------------------------- bounds
NumProcs == 2
MaxCapacity == 2
MaxRes == 2

Procs == 1..NumProcs
Resources == 1..MaxRes
\* `var src Src`: the nil interface value.
NoSrc == 0

VARIABLES
  capacity,    \* classic.capacity
  maxIdle,     \* classic.maxIdle
  srcs,        \* classic.srcs: the channel's buffer, oldest first
  srcsClosed,  \* close(self.srcs) has run
  len,         \* classic.len
  released,    \* classic.released
  writer,      \* the goroutines holding the RWMutex exclusively across steps
  pc,          \* the program point of each goroutine, in Call() or Release()
  src,         \* Call(): the local variable src of each caller
  err,         \* Call(): the value the caller's last Call() returned
  afterRelease,\* Call(): released was already true when this Call() started
  relI,        \* Release(): the loop variable i of each goroutine
  gcPc,        \* gc(): the program point of the reaper goroutine
  created,     \* number of resources the factory has returned (ids 1..created)
  destroyed,   \* per resource: how many times Src.Release() was called on it
  panicked     \* an unrecovered panic has ended the program

vars == <<capacity, maxIdle, srcs, srcsClosed, len, released, writer,
          pc, src, err, afterRelease, relI, gcPc,
          created, destroyed, panicked>>

poolVars == <<capacity, maxIdle, srcs, srcsClosed, len, released>>
callVars == <<pc, src, err, afterRelease>>

\* ------------------------------------------------------------- helpers
Range(q) == { q[i] : i \in 1..Len(q) }

\* sync.RWMutex: Lock() and RLock() are granted when no writer holds the
\* mutex (no reader holds it across steps).
CanLock == writer = {}

CanRLock == writer = {}

\* No unrecovered panic has ended the program.
Running == ~panicked

\* Faulty variant of Recv: the received resource also stays in the channel.
RecvNoRemove(q) == q

\* What a receive leaves in the channel (the receiver gets Head(q)).
Recv(q) == Tail(q)

\* Faulty variant of RecoverSend: the send is left out.
RecoverSendDropped(q, s) == q

\* recover: the channel after `self.srcs <- src`.
RecoverSend(q, s) == Append(q, s)

\* Faulty variant of LenAfterGrow: the increment is left out.
LenAfterGrowForgotten == len

\* incAuto: self.len++
LenAfterGrow == len + 1

\* Faulty variant of GcRemaining: the resources are released where they are.
GcRemainingAll(q, n) == q

\* gc: what n receives leave in the channel.
GcRemaining(q, n) == SubSeq(q, n + 1, Len(q))

\* Variant of AtCapacity: the test is off by one.
AtCapacityOffByOne == len > capacity

\* incAuto's capacity test.
AtCapacity == len >= capacity

\* Variant of DrainMore: one receive per idle resource.
DrainMoreExact(i) == i > 0

\* Release's loop condition `i >= 0`.
DrainMore(i) == i >= 0

\* Faulty variant of LenAfterDel: the decrement is left out.
LenAfterDelForgotten == len

\* Faulty variant of LenAfterDel: the decrement is made twice.
LenAfterDelTwice == len - 2

\* del: self.len--
LenAfterDel == len - 1

\* Faulty variant of LenAfterFactoryError: len is incremented before the
\* factory's error is looked at.
LenAfterFactoryErrorCounted == len + 1

\* incAuto: `if err != nil { return err }` leaves self.len as it is.
LenAfterFactoryError == len

\* Len(): RLock; return self.len; RUnlock.
LenResult == len

\* Src.Release() on resource s.
Destroy(s) == [destroyed EXCEPT ![s] = @ + 1]

\* ------------------------------------------------------------------ Init
\* ClassicPool(capacity, maxIdle, factory): an empty channel of `capacity`
\* slots, len = 0, released = false, and the gc goroutine started.
Init ==
  /\ capacity \in 0..MaxCapacity
  /\ maxIdle \in 0..MaxCapacity
  /\ srcs = <<>>
  /\ srcsClosed = FALSE
  /\ len = 0
  /\ released = FALSE
  /\ writer = {}
  /\ pc = [p \in Procs |-> "idle"]
  /\ src = [p \in Procs |-> NoSrc]
  /\ err = [p \in Procs |-> "none"]
  /\ afterRelease = [p \in Procs |-> FALSE]
  /\ relI = [p \in Procs |-> 0]
  /\ gcPc = "check"
  /\ created = 0
  /\ destroyed = [s \in Resources |-> 0]
  /\ panicked = FALSE

\* ---------------------------------------------------------------- Call()
\* A caller invokes Call(callback): `var src Src`, then the label wait.
CallStart(p) ==
  /\ Running
  /\ pc[p] = "idle"
  /\ pc' = [pc EXCEPT ![p] = "wait"]
  /\ src' = [src EXCEPT ![p] = NoSrc]
  /\ err' = [err EXCEPT ![p] = "none"]
  /\ afterRelease' = [afterRelease EXCEPT ![p] = released]
  /\ UNCHANGED <<poolVars, writer, relI, gcPc, created, destroyed, panicked>>

\* wait: RLock; released: return releasedError; else the non-blocking
\* select: a resource is received, or (default:) the channel is empty and
\* incAuto is next.  Every branch ends with RUnlock.
CallSelect(p) ==
  /\ Running
  /\ pc[p] = "wait"
  /\ CanRLock
  /\ IF released
       THEN /\ pc' = [pc EXCEPT ![p] = "idle"]
            /\ err' = [err EXCEPT ![p] = "released"]
            /\ UNCHANGED <<srcs, src>>
       ELSE IF srcs # <<>>
              THEN /\ src' = [src EXCEPT ![p] = Head(srcs)]
                   /\ srcs' = Recv(srcs)
                   /\ pc' = [pc EXCEPT ![p] = "usable"]
                   /\ UNCHANGED err
              ELSE /\ pc' = [pc EXCEPT ![p] = "incAuto"]
                   /\ UNCHANGED <<srcs, src, err>>
  /\ UNCHANGED <<capacity, maxIdle, srcsClosed, len, released, writer,
                 afterRelease, relI, gcPc, created, destroyed, panicked>>

\* if !src.IsUsable(): the resource answers either way.  A usable resource
\* goes to the callback (the deferred recover is registered first).
CallIsUsable(p) ==
  /\ Running
  /\ pc[p] = "usable"
  /\ \E usable \in BOOLEAN :
       pc' = [pc EXCEPT ![p] = IF usable THEN "callback" ELSE "del"]
  /\ UNCHANGED <<poolVars, writer, src, err, afterRelease, relI, gcPc,
                 created, destroyed, panicked>>

\* del: src.Release(), before the lock is taken.
DelRelease(p) ==
  /\ Running
  /\ pc[p] = "del"
  /\ destroyed' = Destroy(src[p])
  /\ pc' = [pc EXCEPT ![p] = "delLock"]
  /\ UNCHANGED <<poolVars, writer, src, err, afterRelease, relI, gcPc,
                 created, panicked>>

\* del: Lock; self.len--; Unlock; then goto wait.  src still names the
\* released resource there, but it is not read again before the next receive
\* overwrites it, so the model forgets it here.
DelLen(p) ==
  /\ Running
  /\ pc[p] = "delLock"
  /\ CanLock
  /\ len' = LenAfterDel
  /\ pc' = [pc EXCEPT ![p] = "wait"]
  /\ src' = [src EXCEPT ![p] = NoSrc]
  /\ UNCHANGED <<capacity, maxIdle, srcs, srcsClosed, released, writer,
                 err, afterRelease, relI, gcPc, created, destroyed, panicked>>

\* incAuto: Lock; at capacity: return nil (Unlock); Call yields
\* (runtime.Gosched) and retries.
IncFull(p) ==
  /\ Running
  /\ pc[p] = "incAuto"
  /\ CanLock
  /\ AtCapacity
  /\ pc' = [pc EXCEPT ![p] = "wait"]
  /\ UNCHANGED <<poolVars, writer, src, err, afterRelease, relI, gcPc,
                 created, destroyed, panicked>>

\* incAuto: Lock; below capacity, the factory fails: the error is returned
\* by incAuto (Unlock) and by Call.
IncFactoryError(p) ==
  /\ Running
  /\ pc[p] = "incAuto"
  /\ CanLock
  /\ ~AtCapacity
  /\ len' = LenAfterFactoryError
  /\ err' = [err EXCEPT ![p] = "factory"]
  /\ pc' = [pc EXCEPT ![p] = "idle"]
  /\ UNCHANGED <<capacity, maxIdle, srcs, srcsClosed, released, writer, src,
                 afterRelease, relI, gcPc, created, destroyed, panicked>>

\* incAuto: Lock; below capacity, the factory returns a new resource: it is
\* sent to the channel and len is incremented; Unlock.  A send on a closed
\* channel panics; a send on a full channel blocks.
IncGrow(p) ==
  /\ Running
  /\ pc[p] = "incAuto"
  /\ CanLock
  /\ ~AtCapacity
  /\ created < MaxRes
  /\ created' = created + 1
  /\ IF srcsClosed
       THEN /\ panicked' = TRUE
            /\ UNCHANGED <<srcs, len, pc>>
       ELSE /\ Len(srcs) < capacity
            /\ srcs' = Append(srcs, created + 1)
            /\ len' = LenAfterGrow
            /\ pc' = [pc EXCEPT ![p] = "wait"]
            /\ UNCHANGED panicked
  /\ UNCHANGED <<capacity, maxIdle, srcsClosed, released, writer,
                 src, err, afterRelease, relI, gcPc, destroyed>>

\* The callback ends: it returns nil, returns an error, or panics; the
\* deferred function turns the panic into an error and calls self.recover.
CallbackReturn(p) ==
  /\ Running
  /\ pc[p] = "callback"
  /\ \E outcome \in {"ok", "error", "fault"} :
       err' = [err EXCEPT ![p] = outcome]
  /\ pc' = [pc EXCEPT ![p] = "recover"]
  /\ UNCHANGED <<poolVars, writer, src, afterRelease, relI, gcPc, created,
                 destroyed, panicked>>

\* recover: RLock; return when released, else Reset and send the resource
\* back; RUnlock; Call returns err and its local src is gone.
Recover(p) ==
  /\ Running
  /\ pc[p] = "recover"
  /\ CanRLock
  /\ IF released
       THEN UNCHANGED srcs
       ELSE /\ Len(srcs) < capacity
            /\ srcs' = RecoverSend(srcs, src[p])
  /\ pc' = [pc EXCEPT ![p] = "idle"]
  /\ src' = [src EXCEPT ![p] = NoSrc]
  /\ UNCHANGED <<capacity, maxIdle, srcsClosed, len, released, writer,
                 err, afterRelease, relI, gcPc, created, destroyed, panicked>>

\* ------------------------------------------------------------- Release()
\* A goroutine invokes Release().
ReleaseStart(p) ==
  /\ Running
  /\ pc[p] = "idle"
  /\ pc' = [pc EXCEPT ![p] = "relLock"]
  /\ UNCHANGED <<poolVars, writer, src, err, afterRelease, relI, gcPc, created,
                 destroyed, panicked>>

\* self.Lock(); if released: return (the deferred Unlock runs); else
\* released = true and i := len(self.srcs).
ReleaseLock(p) ==
  /\ Running
  /\ pc[p] = "relLock"
  /\ CanLock
  /\ IF released
       THEN /\ pc' = [pc EXCEPT ![p] = "idle"]
            /\ UNCHANGED <<released, relI, writer>>
       ELSE /\ released' = TRUE
            /\ relI' = [relI EXCEPT ![p] = Len(srcs)]
            /\ writer' = {p}
            /\ pc' = [pc EXCEPT ![p] = "drain"]
  /\ UNCHANGED <<capacity, maxIdle, srcs, srcsClosed, len, src, err,
                 afterRelease, gcPc, created, destroyed, panicked>>

\* One turn of `for i := len(self.srcs); i >= 0; i--`: a blocking receive and
\* Src.Release() on what was received; after the loop close(self.srcs),
\* len = 0 and the deferred Unlock.
ReleaseDrain(p) ==
  /\ Running
  /\ pc[p] = "drain"
  /\ writer = {p}
  /\ IF DrainMore(relI[p])
       THEN /\ srcs # <<>>
            /\ destroyed' = Destroy(Head(srcs))
            /\ srcs' = Recv(srcs)
            /\ relI' = [relI EXCEPT ![p] = @ - 1]
            /\ UNCHANGED <<srcsClosed, len, writer, pc>>
       ELSE /\ srcsClosed' = TRUE
            /\ len' = 0
            /\ writer' = {}
            /\ pc' = [pc EXCEPT ![p] = "idle"]
            /\ UNCHANGED <<srcs, relI, destroyed>>
  /\ UNCHANGED <<capacity, maxIdle, released, src, err, afterRelease, gcPc,
                 created, panicked>>

\* ------------------------------------------------------------------ gc()
\* for !self.isReleased(): RLock, read released, RUnlock.
GcIsReleased ==
  /\ Running
  /\ gcPc = "check"
  /\ CanRLock
  /\ gcPc' = IF released THEN "exited" ELSE "Lock"
  /\ UNCHANGED <<poolVars, writer, callVars, relI, created,
                 destroyed, panicked>>

\* Faulty variant of GcExtra: self.len is taken for the idle count.
GcExtraFromLen == len - maxIdle

\* extra := len(self.srcs) - self.maxIdle
GcExtra == Len(srcs) - maxIdle

\* Faulty variant of GcLenAfter: self.len is left as it is.
GcLenUnchanged == len

\* gc: self.len -= extra
GcLenAfter == len - GcExtra

\* One pass: Lock; when extra is positive, len -= extra and extra resources
\* are received and released; Unlock; then time.Sleep(self.gctime), after
\* which the loop condition is next.
GcPass ==
  /\ Running
  /\ gcPc = "Lock"
  /\ CanLock
  /\ IF GcExtra > 0
       THEN /\ GcExtra <= Len(srcs)
            /\ len' = GcLenAfter
            /\ destroyed' = [s \in Resources |->
                  IF \E i \in 1..GcExtra : srcs[i] = s
                    THEN destroyed[s] + 1 ELSE destroyed[s]]
            /\ srcs' = GcRemaining(srcs, GcExtra)
       ELSE UNCHANGED <<len, destroyed, srcs>>
  /\ gcPc' = "check"
  /\ UNCHANGED <<capacity, maxIdle, srcsClosed, released, writer, callVars,
                 relI, created, panicked>>

\* ------------------------------------------------------------------ Next
Next ==
  \/ \E p \in Procs :
        \/ CallStart(p)
        \/ CallSelect(p)
        \/ CallIsUsable(p)
        \/ DelRelease(p)
        \/ DelLen(p)
        \/ IncFull(p)
        \/ IncFactoryError(p)
        \/ IncGrow(p)
        \/ CallbackReturn(p)
        \/ Recover(p)
        \/ ReleaseStart(p)
        \/ ReleaseLock(p)
        \/ ReleaseDrain(p)
  \/ GcIsReleased
  \/ GcPass

Spec == Init /\ [][Next]_vars

\* ------------------------------------------- the pool that is never closed
\* A step of goroutine p inside a Call() it has started, with a factory
\* that always succeeds.
CallStep(p) ==
  \/ CallSelect(p)
  \/ CallIsUsable(p)
  \/ DelRelease(p)
  \/ DelLen(p)
  \/ IncFull(p)
  \/ IncGrow(p)
  \/ CallbackReturn(p)
  \/ Recover(p)

\* A step of the reaper goroutine.
GcStep == GcIsReleased \/ GcPass

\* ClassicPool with capacity >= 1.
LiveInit == Init /\ capacity >= 1

\* Release() is never invoked and the factory never fails.
LiveNext ==
  \/ \E p \in Procs :
        \/ CallStart(p)
        \/ CallSelect(p)
        \/ CallIsUsable(p)
        \/ DelRelease(p)
        \/ DelLen(p)
        \/ IncFull(p)
        \/ IncGrow(p)
        \/ CallbackReturn(p)
        \/ Recover(p)
  \/ GcIsReleased
  \/ GcPass

\* The scheduler lets every goroutine that can continuously take a step take
\* one: a Call() that has started goes on (its callback returns), and so
\* does the reaper.  No goroutine is obliged to start a Call().
LiveSpec ==
  /\ LiveInit
  /\ [][LiveNext]_vars
  /\ \A p \in Procs : WF_vars(CallStep(p))
  /\ WF_vars(GcStep)

\* ------------------------------------------------------------ properties
\* Resources the factory has returned and nobody has released.
Alive == { s \in Resources : s <= created /\ destroyed[s] = 0 }

\* The goroutines whose Call() holds resource s: received, not yet sent back
\* and not yet released.
Holders(s) == { p \in Procs : src[p] = s /\ pc[p] \in {"usable", "callback", "del", "recover"} }

\* How many slots of channel buffer q hold resource s.
ParkedIn(q, s) == Len(SelectSeq(q, LAMBDA x : x = s))

Parked(s) == ParkedIn(srcs, s)

InCallback == { p \in Procs : pc[p] = "callback" }

\* This step invokes the factory: a resource is created, or a caller leaves
\* incAuto with the factory's error.
FactoryCalled ==
  \/ created' # created
  \/ \E p \in Procs : pc[p] = "incAuto" /\ pc'[p] = "idle" /\ err'[p] = "factory"

\* This step sends a resource to the channel (every step makes at most one
\* send, and no step both sends and receives).
Enqueued == Len(srcs') > Len(srcs)

\* C1: in every reachable state 0 <= len <= capacity, and the resources
\* created and not yet destroyed number at most capacity.
C1_LiveWithinCapacity ==
  /\ 0 <= len
  /\ len <= capacity
  /\ Cardinality(Alive) <= capacity

\* The pool is full, a resource was destroyed and replaced before, and a
\* further caller is about to attempt growth.
C1_Witness ==
  /\ capacity >= 1
  /\ len = capacity
  /\ Cardinality(Alive) = capacity
  /\ created > capacity
  /\ \E p \in Procs : pc[p] = "incAuto"

\* C2: every created resource is in exactly one place: one slot of the
\* free-list, the hands of exactly one Call(), or destroyed; a resource not
\* yet created is nowhere.
C2_ExclusiveOwnership ==
  \A s \in Resources :
    IF s <= created
      THEN \/ Parked(s) = 1 /\ Holders(s) = {} /\ destroyed[s] = 0
           \/ Parked(s) = 0 /\ Cardinality(Holders(s)) = 1 /\ destroyed[s] = 0
           \/ Parked(s) = 0 /\ Holders(s) = {} /\ destroyed[s] >= 1
      ELSE Parked(s) = 0 /\ Holders(s) = {} /\ destroyed[s] = 0

\* Two callbacks run at the same time, on two resources.
C2_Witness ==
  \E p, q \in Procs : p # q /\ pc[p] = "callback" /\ pc[q] = "callback"

\* C3 (as claimed): a Release() that has taken the lock returns.  While it
\* has not returned, some goroutine of the program must be able to take a
\* step: from a state where none can, Release() never returns.
C3_ReleaseReturns ==
  (\E p \in Procs : pc[p] = "drain") => ENABLED Next

\* C4 (as claimed): a second Release() returns.  While it waits for the lock
\* that the first invocation took, some goroutine must be able to take a
\* step.
C4_SecondReleaseReturns ==
  (released /\ \E p \in Procs : pc[p] = "relLock") => ENABLED Next

\* C5 (as claimed): a Call() that starts when released is already true
\* invokes neither the factory nor the callback (it is only ever at the
\* label wait, or back with releasedError), and it returns: while it has
\* not, some goroutine must be able to take a step.
C5_CallAfterReleaseFails ==
  \A p \in Procs :
    afterRelease[p] =>
      /\ pc[p] \in {"wait", "idle"}
      /\ pc[p] = "idle" => err[p] = "released"
      /\ pc[p] = "wait" => ENABLED Next

\* C6: released only changes from false to true, and no step taken while
\* released is true invokes the factory or sends a resource to the channel.
C6_ClosedIsFinal ==
  [][released => (released' /\ ~FactoryCalled /\ ~Enqueued)]_vars

\* The pool is closed while a Call() that passed its closed-check before is
\* on its way into incAuto, below capacity.
C6_Witness ==
  /\ released
  /\ ~AtCapacity
  /\ \E p \in Procs : pc[p] = "incAuto"

\* C7: no resource is released more than once, and a released resource is
\* neither in the free-list nor with a callback nor about to be parked.
C7_DestroyedOnce ==
  \A s \in Resources :
    /\ destroyed[s] <= 1
    /\ destroyed[s] >= 1 =>
         /\ Parked(s) = 0
         /\ \A p \in Procs : pc[p] \in {"callback", "recover"} => src[p] # s

\* One resource has been destroyed and a callback runs on another one.
C7_Witness ==
  /\ \E s \in Resources : destroyed[s] = 1
  /\ InCallback # {}

\* C8 (as claimed): once the pool is closed and no callback runs, every
\* created resource is eventually destroyed.  While one is not, some
\* goroutine must be able to take a step.
C8_AllDestroyedAfterRelease ==
  (released /\ InCallback = {} /\ Alive # {}) => ENABLED Next

\* C9: the step by which a Call() that ran its callback returns leaves the
\* borrowed resource in the free-list or destroyed.
C9_ReturnParksOrDestroys ==
  [][\A p \in Procs :
       (pc[p] = "recover" /\ pc'[p] = "idle") =>
         (ParkedIn(srcs', src[p]) = 1 \/ destroyed'[src[p]] >= 1)]_vars

\* A Call() whose callback faulted has returned, and the only resource of
\* the pool is back in the free-list.
C9_Witness ==
  /\ created = 1
  /\ srcs = <<1>>
  /\ \E p \in Procs : pc[p] = "idle" /\ err[p] = "fault"

\* C10: at most capacity callbacks run at the same time, and no step taken
\* while len = capacity invokes the factory.
C10_CallbacksWithinCapacity ==
  /\ [](Cardinality(InCallback) <= capacity)
  /\ [][len = capacity => ~FactoryCalled]_vars

\* The pool is saturated (every live resource is with a callback) and a
\* further Call() is retrying.
C10_Witness ==
  /\ capacity >= 1
  /\ len = capacity
  /\ Cardinality(InCallback) = capacity
  /\ \E p \in Procs : pc[p] = "incAuto"

\* C11: a resource that Call() dequeued and found unusable is released
\* exactly once (it had not been released before, and nothing releases it
\* again), len is decremented by exactly one for it, it is never in the
\* channel or in the hands of a Call() afterwards, and the Call() goes back
\* to the label wait without an error.
C11_UnusableDestroyedOnce ==
  [][ /\ \A p \in Procs :
           /\ (pc[p] = "usable" /\ pc'[p] = "del") =>
                 /\ src'[p] = src[p]
                 /\ destroyed[src[p]] = 0
                 /\ UNCHANGED <<len, srcs, destroyed, err>>
           /\ (pc[p] = "del" /\ pc'[p] # "del") =>
                 /\ pc'[p] = "delLock"
                 /\ destroyed' = [destroyed EXCEPT ![src[p]] = 1]
                 /\ UNCHANGED <<len, srcs, err>>
           /\ (pc[p] = "delLock" /\ pc'[p] # "delLock") =>
                 /\ pc'[p] = "wait"
                 /\ len' = len - 1
                 /\ err'[p] = "none"
                 /\ UNCHANGED <<srcs, destroyed>>
      /\ \A s \in Resources :
           destroyed[s] >= 1 =>
             /\ destroyed'[s] = destroyed[s]
             /\ ParkedIn(srcs', s) = 0
             /\ \A q \in Procs :
                  pc'[q] \in {"usable", "callback", "recover"} => src'[q] # s
    ]_vars

\* The reaper never trims (maxIdle >= capacity) and the pool is open, so the
\* one resource created was released by del; its caller is back at the
\* label wait with len decremented to 0 and no error.
C11_Witness ==
  /\ ~released
  /\ capacity >= 1
  /\ maxIdle >= capacity
  /\ created = 1
  /\ destroyed[1] = 1
  /\ len = 0
  /\ \E p \in Procs : pc[p] = "wait" /\ err[p] = "none" /\ src[p] = NoSrc

\* C12: one pass of the reaper that finds I resources in the channel under
\* the exclusive lock releases exactly max(0, I - maxIdle) resources, each
\* of them received from the channel (the first ones, once each), decreases
\* len by exactly that number, changes neither the channel nor len when
\* I <= maxIdle, and never invokes the factory.  Consequently, when nothing
\* is borrowed and len = I, Len() after the pass returns the smaller of I
\* and maxIdle (2 for maxIdle 2 and 4 idle resources).
C12_ReaperPass ==
  [][ (gcPc = "Lock" /\ gcPc' # "Lock") =>
        LET I == Len(srcs)
            n == IF I > maxIdle THEN I - maxIdle ELSE 0
        IN  /\ srcs' = SubSeq(srcs, n + 1, I)
            /\ len' = len - n
            /\ \A s \in Resources :
                 destroyed'[s] = destroyed[s] + ParkedIn(SubSeq(srcs, 1, n), s)
            /\ I <= maxIdle => UNCHANGED <<srcs, len, destroyed>>
            /\ ~FactoryCalled
            /\ ((\A s \in Resources : Holders(s) = {}) /\ len = I) =>
                  LenResult' = IF I > maxIdle THEN maxIdle ELSE I
    ]_vars

\* After a pass with maxIdle 1 over two idle resources: the older one is
\* released, the younger one is still parked, len is 1, and the reaper is
\* back at the top of its loop.
C12_Witness ==
  /\ ~released
  /\ gcPc = "check"
  /\ capacity = 2
  /\ maxIdle = 1
  /\ created = 2
  /\ srcs = <<2>>
  /\ destroyed[1] = 1
  /\ destroyed[2] = 0
  /\ LenResult = 1
  /\ \A p \in Procs : pc[p] = "wait" /\ src[p] = NoSrc

\* C13: when the callback faults, the caller's steps from the callback to
\* its return leave len as it is; and when the deferred recover then runs
\* with released false, Call() returns a non-nil error and the resource it
\* held is sent to the back of the channel, not released.
C13_FaultParksBack ==
  [][ \A p \in Procs :
        /\ (pc[p] = "callback" /\ pc'[p] # "callback") =>
              /\ pc'[p] = "recover"
              /\ src'[p] = src[p]
              /\ UNCHANGED <<len, srcs, destroyed>>
        /\ (pc[p] = "recover" /\ err[p] = "fault" /\ ~released
              /\ pc'[p] # "recover") =>
              /\ pc'[p] = "idle"
              /\ err'[p] \notin {"none", "ok"}
              /\ srcs' = Append(srcs, src[p])
              /\ destroyed'[src[p]] = 0
              /\ UNCHANGED <<len, released, destroyed>>
    ]_vars

\* A full pool of two resources: one Call() has returned the error of its
\* faulted callback and its resource is parked again, while the other
\* resource is still with a callback; len is still 2.
C13_Witness ==
  /\ ~released
  /\ capacity = 2
  /\ len = 2
  /\ Len(srcs) = 1
  /\ \E p, q \in Procs :
       /\ pc[p] = "idle" /\ err[p] = "fault"
       /\ pc[q] = "callback"

\* C14: a Call() gets the factory's error only in the step that leaves
\* incAuto with len < capacity; that step returns from Call() at once (the
\* caller never reaches its callback), hands the factory's error back, and
\* leaves len, released, the channel and its content, and the resources
\* created and released unchanged, with the lock free again.
C14_FactoryErrorReturns ==
  [][ \A p \in Procs :
        /\ (pc[p] = "incAuto" /\ pc'[p] = "idle") =>
              /\ len < capacity
              /\ err'[p] = "factory"
              /\ writer' = {}
              /\ UNCHANGED <<len, released, srcs, srcsClosed, created,
                             destroyed>>
        /\ (err'[p] = "factory" /\ err[p] # "factory") =>
              pc[p] = "incAuto" /\ pc'[p] = "idle"
    ]_vars

\* Capacity 1 and nothing released yet: one Call() has returned the
\* factory's error, which it can only have got while len was 0; the single
\* resource was therefore grown after that failure, and another Call() is
\* running its callback on it.
C14_Witness ==
  /\ ~released
  /\ capacity = 1
  /\ created = 1
  /\ destroyed[1] = 0
  /\ len = 1
  /\ \E p, q \in Procs :
       /\ pc[p] = "idle" /\ err[p] = "factory"
       /\ pc[q] = "callback" /\ src[q] = 1

\* C15 (as claimed): once released is true the reaper observes it at the top
\* of an iteration and exits.  While released is true and the reaper has
\* not exited, some goroutine of the program must be able to take a step:
\* from a state where none can, the reaper never exits.
C15_ReaperExits ==
  (released /\ gcPc # "exited") => ENABLED Next

\* The goroutines whose Call() holds a resource it received and has neither
\* sent back nor released.
Borrowers == { p \in Procs : pc[p] \in {"usable", "callback", "del", "recover"} }

\* C16: while released is false, in every state where nobody holds the lock
\* and no Call() stands between src.Release() and the self.len-- of del,
\* len is the number of resources in the channel plus the number of
\* resources borrowed.
C16_LenIsIdlePlusBorrowed ==
  (/\ ~released
   /\ writer = {}
   /\ \A p \in Procs : pc[p] # "delLock")
    => len = Len(srcs) + Cardinality(Borrowers)

\* An open pool of two resources outside every locked region: one is parked
\* and the other is with a callback.
C16_Witness ==
  /\ ~released
  /\ writer = {}
  /\ \A p \in Procs : pc[p] # "delLock"
  /\ len = 2
  /\ Len(srcs) = 1
  /\ Cardinality(Borrowers) = 1
  /\ \E p \in Procs : pc[p] = "callback"

\* Goroutine p is in a Call() that has not reached its callback.
Spinning(p) == pc[p] \in {"wait", "incAuto", "usable", "del", "delLock"}

\* The pool is saturated for p: len = capacity and every live resource is
\* borrowed by a caller other than p.
SaturatedFor(p) ==
  /\ len = capacity
  /\ srcs = <<>>
  /\ p \notin Borrowers

\* C17 (as claimed): on the pool that is never closed, under weak fairness,
\* a Call() that never reaches its callback implies that from some point on
\* the pool is saturated for it for ever.  (Runs in which the factory has
\* handed out every resource of Resources are left aside.)
C17_NoStarvation ==
  \A p \in Procs :
    <>[]Spinning(p) => <>[](SaturatedFor(p) \/ created = MaxRes)

\* C17 (amended): on the pool that is never closed, a Call() that has
\* started never waits for anything: in every state its next step can be
\* taken (the lock is free between the locked regions, the sends find a
\* slot), unless the step is a growth and the factory has handed out every
\* resource of Resources.
C17_CallNeverBlocks ==
  \A p \in Procs :
    pc[p] # "idle" =>
      \/ ENABLED CallStep(p)
      \/ pc[p] = "incAuto" /\ ~AtCapacity /\ created = MaxRes

\* One caller is retrying at the growth step of a full pool of capacity 1
\* whose only resource, still the first one created, is with another
\* caller's callback for the second time at least.
C17_Witness ==
  /\ capacity = 1
  /\ created = 1
  /\ len = 1
  /\ \E p, q \in Procs :
       /\ pc[p] = "incAuto"
       /\ pc[q] = "callback" /\ src[q] = 1

\* C18 (as claimed): every step that invokes the factory starts in a state
\* where the channel is empty and len < capacity.
C18_FactoryOnlyWhenEmpty ==
  [][ FactoryCalled => (srcs = <<>> /\ len < capacity) ]_vars

\* C19: the channel never holds more than capacity resources; whenever a
\* Call() is about to send in recover (released false), or is in incAuto
\* with len < capacity and so about to send a new resource, the channel has
\* a free slot; whenever the reaper is about to make its pass, the channel
\* holds at least the extra resources it will receive.  Hence, while
\* released is false, nobody keeps the lock across steps, and the locked
\* regions of recover and of the reaper's pass run to their end.
C19_SendsAndReceivesNeverBlock ==
  /\ Len(srcs) <= capacity
  /\ \A p \in Procs :
       /\ (pc[p] = "recover" /\ ~released) => Len(srcs) < capacity
       /\ (pc[p] = "incAuto" /\ len < capacity /\ ~srcsClosed) =>
             Len(srcs) < capacity
       /\ (pc[p] = "recover" /\ ~released) => ENABLED Recover(p)
  /\ (gcPc = "Lock" /\ Len(srcs) - maxIdle > 0) =>
        Len(srcs) - maxIdle <= Len(srcs)
  /\ ~released => writer = {}
  /\ (gcPc = "Lock" /\ ~released) => ENABLED GcPass

\* A pool of capacity 2 with one resource parked: a Call() is about to send
\* its resource into the last free slot, and the reaper (maxIdle 0) is
\* about to receive what is parked.
C19_Witness ==
  /\ ~released
  /\ capacity = 2
  /\ maxIdle = 0
  /\ Len(srcs) = 1
  /\ gcPc = "Lock"
  /\ \E p \in Procs : pc[p] = "recover"

====
